---------------------------- MODULE Spec2Model ----------------------------
(***************************************************************************)
(* planetcoveragefinder: the greedy mosaic builder (Processor.build_mosaic) *)
(* and the per-AOI date search (Processor.get_tiles, Processor.__call__).   *)
(*                                                                         *)
(* SpecMosaic follows build_mosaic one candidate at a time; Spec follows    *)
(* one call of the Processor for one AOI, SpecLive is Spec with a worker    *)
(* that keeps running; SpecPool follows several workers through get_clouds; *)
(* SpecUnit applies single functions to their inputs.                       *)
(*                                                                         *)
(* Geometry is modelled on a grid: a geometry is the set of the unit cells  *)
(* it occupies, its area is the number of cells.  Cells 1..AoiCells may     *)
(* belong to an AOI, the cells above lie outside of it.  Areas are exact    *)
(* (rational arithmetic, not floating point), int() is truncation.          *)
(***************************************************************************)
EXTENDS Integers, Sequences, FiniteSets, TLC

\* processor.py:31
MAX_TILES == 64

\* Bounds of the exhaustive inputs of the mosaic builder.
AoiCells == 3
MaxRes == 2
\* Fragmented inputs: single-cell footprints, up to MAX_TILES + FragExtra of them.
FragExtra == 2

\* Number of dates in Processor.dates.
NumDates == 2

\* wait(timeout_seconds=3600, sleep_seconds=(1, 60)) in units of time: the
\* timeout, and the longest time one round of polling takes.
WaitTimeout == 3
MaxSleep == 2

VARIABLES
    aoi_geom,        \* AOI.geom
    min_cover,       \* Processor.min_cover
    res,             \* build_mosaic: the ranked candidate list
    idx,             \* build_mosaic: number of candidates the loop has taken
    loopst,          \* build_mosaic: locals mosaic, tiles and where control is
    ret,             \* build_mosaic: the returned (tiles, mosaic, cover), once returned
    max_clouds,      \* Processor.max_clouds
    min_confidence,  \* Processor.min_confidence
    mask_bands,      \* Processor.mask_bands
    order,           \* Processor.order
    download,        \* Processor.download
    pc,              \* Processor.__call__: where control is
    date_i,          \* get_tiles: index in self.dates of the next date of the loop
    aoi_state,       \* AOI.max_cover, AOI.min_clouds
    locals,          \* Processor.__call__: date, tiles, order_id, zip_file
    queries,         \* the dates the catalog was searched for, in order
    log,             \* what get_tiles met and decided for each date it tried
    evaluated,       \* what get_clouds returned for the last date tried, if it did
    downloads,       \* download_udm: the ids in its default-argument dict
    attempt,         \* the last date tried: build_mosaic's cover, tiles left without a mask
    trace,           \* __call__: the collaborator calls made and the timeout it met
    order_state,     \* the state of the order at the ordering service
    elapsed,         \* download_order: the time wait() has been polling for
    pool,            \* the worker pool: each worker's AOI, tiles and position
    unit,            \* a function applied on its own: its name and arguments
    out              \* the value that application returned, once it has

mosaicvars == <<res, idx, loopst, ret>>
configvars == <<aoi_geom, min_cover, max_clouds, min_confidence, mask_bands, order, download>>
callvars == <<pc, date_i, aoi_state, locals, queries, log, evaluated, downloads,
              attempt, trace, order_state, elapsed>>
ordervars == <<trace, order_state, elapsed>>
sidevars == <<pool, unit, out>>
vars == <<mosaicvars, configvars, callvars, sidevars>>

-----------------------------------------------------------------------------
(* Python's None and optional values *)
None == <<>>
Some(x) == <<x>>

(* shapely: geometries as sets of cells *)
area(g) == Cardinality(g)
intersection(a, b) == a \cap b
union(a, b) == a \cup b
difference(a, b) == a \ b
is_empty(g) == g = {}
\* a.intersects(b): the geometries share a point
intersects(a, b) == a \cap b # {}
\* a.contains(b): no point of b outside a, and the interiors share a point
contains(a, b) == b # {} /\ b \subseteq a
\* a.covers(b): no point of b outside a
covers(a, b) == b \subseteq a
\* geometry.MultiPolygon()
EmptyMultiPolygon == {}

\* a plausible slip: rounding to the nearest integer instead of truncating
PercentInt_Rounded(a, b) == (a * 100 + b \div 2) \div b

\* int(a / b * 100) for areas a, b with b > 0
PercentInt(a, b) == (a * 100) \div b

(* AOI.__init__: the trackers *)
AOI_init == [max_cover |-> 0, min_clouds |-> 100]

\* Processor.__call__: its locals on entry; date and tiles are not bound yet
CallLocals ==
    [date_bound |-> FALSE, date |-> None, tiles |-> <<>>,
     order_id |-> None, zip_file |-> None]

\* get_tiles before its first date: build_mosaic has reported no cover, no
\* mask was missed
NoAttempt == [cover |-> None, missing |-> {}]

\* no worker pool: one call is followed on its own
NoPool == <<>>

(* Tile.__init__ *)
Tile(item, geom) ==
    [item |-> item, geom |-> geom, clouds |-> None, confidence |-> None]

-----------------------------------------------------------------------------
(* Processor.build_mosaic *)

\* the locals before the loop
MosaicStart == [mosaic |-> EmptyMultiPolygon, tiles |-> <<>>, at |-> "loop"]

\* a plausible slip: the tile gets the clipped footprint, not the part of it
\* that the mosaic does not cover yet
MosaicStep_NoDifference(st, item, aoi) ==
    LET footprint == item.geometry
        geom == intersection(footprint, aoi)
    IN  IF intersects(aoi, geom) /\ ~contains(st.mosaic, geom)
        THEN LET mosaic2 == union(st.mosaic, footprint)
                 tiles2 == Append(st.tiles, Tile(item, geom))
             IN  [mosaic |-> mosaic2, tiles |-> tiles2,
                  at |-> IF covers(mosaic2, aoi) THEN "return100"
                         ELSE IF MAX_TILES < Len(tiles2) THEN "break"
                         ELSE "loop"]
        ELSE st

\* a plausible slip: no test that the candidate reaches into the AOI and
\* contributes something
MosaicStep_NoGuard(st, item, aoi) ==
    LET footprint == item.geometry
        geom == intersection(footprint, aoi)
    IN  IF ~contains(st.mosaic, geom)
        THEN LET new_geom == difference(geom, st.mosaic)
                 mosaic2 == union(st.mosaic, footprint)
                 tiles2 == Append(st.tiles, Tile(item, new_geom))
             IN  [mosaic |-> mosaic2, tiles |-> tiles2,
                  at |-> IF covers(mosaic2, aoi) THEN "return100"
                         ELSE IF MAX_TILES < Len(tiles2) THEN "break"
                         ELSE "loop"]
        ELSE st

\* a plausible slip: no early return when the AOI is covered
MosaicStep_NoEarlyExit(st, item, aoi) ==
    IF ~item.valid
    THEN [st EXCEPT !.at = "ShapelyError"]
    ELSE
    LET footprint == item.geometry
        geom == intersection(footprint, aoi)
    IN  IF intersects(aoi, geom) /\ ~contains(st.mosaic, geom)
        THEN LET new_geom == difference(geom, st.mosaic)
             IN  IF is_empty(new_geom)
                 THEN st
                 ELSE LET mosaic2 == union(st.mosaic, footprint)
                          tiles2 == Append(st.tiles, Tile(item, new_geom))
                      IN  [mosaic |-> mosaic2, tiles |-> tiles2,
                           at |-> IF MAX_TILES < Len(tiles2) THEN "break"
                                  ELSE "loop"]
        ELSE st

\* one iteration of `for item in res`
MosaicStep(st, item, aoi) ==
    IF ~item.valid
    THEN [st EXCEPT !.at = "ShapelyError"]
    ELSE
    LET footprint == item.geometry
        geom == intersection(footprint, aoi)
    IN  IF intersects(aoi, geom) /\ ~contains(st.mosaic, geom)
        THEN LET new_geom == difference(geom, st.mosaic)
             IN  IF is_empty(new_geom)
                 THEN st
                 ELSE LET mosaic2 == union(st.mosaic, footprint)
                          tiles2 == Append(st.tiles, Tile(item, new_geom))
                      IN  [mosaic |-> mosaic2, tiles |-> tiles2,
                           at |-> IF covers(mosaic2, aoi) THEN "return100"
                                  ELSE IF MAX_TILES < Len(tiles2) THEN "break"
                                  ELSE "loop"]
        ELSE st

\* a plausible slip: the tiles are returned whatever the coverage
MosaicReturn_NoThreshold(st, aoi, mincover) ==
    IF st.at = "return100"
    THEN [tiles |-> st.tiles, mosaic |-> Some(aoi), cover |-> 100]
    ELSE LET mosaic == intersection(st.mosaic, aoi)
         IN  [tiles |-> st.tiles, mosaic |-> Some(mosaic),
              cover |-> PercentInt(area(mosaic), area(aoi))]

\* a plausible slip: the mosaic is returned as the union of the footprints,
\* not clipped to the AOI
MosaicReturn_Unclipped(st, aoi, mincover) ==
    IF st.at = "return100"
    THEN [tiles |-> st.tiles, mosaic |-> Some(aoi), cover |-> 100]
    ELSE LET cover == PercentInt(area(intersection(st.mosaic, aoi)), area(aoi))
         IN  IF mincover <= cover
             THEN [tiles |-> st.tiles, mosaic |-> Some(st.mosaic), cover |-> cover]
             ELSE [tiles |-> <<>>, mosaic |-> None, cover |-> cover]

\* the code after the loop, and the early return
MosaicReturn(st, aoi, mincover) ==
    IF st.at = "return100"
    THEN [tiles |-> st.tiles, mosaic |-> Some(aoi), cover |-> 100]
    ELSE LET mosaic == intersection(st.mosaic, aoi)
             cover == PercentInt(area(mosaic), area(aoi))
         IN  IF mincover <= cover
             THEN [tiles |-> st.tiles, mosaic |-> Some(mosaic), cover |-> cover]
             ELSE [tiles |-> <<>>, mosaic |-> None, cover |-> cover]

RECURSIVE MosaicLoop(_, _, _, _)
MosaicLoop(st, r, i, aoi) ==
    IF st.at # "loop" \/ i > Len(r) THEN st
    ELSE MosaicLoop(MosaicStep(st, r[i], aoi), r, i + 1, aoi)

\* the whole call: [raised |-> TRUE] or [raised |-> FALSE, tiles, mosaic, cover]
build_mosaic(r, aoi, mincover) ==
    LET st == MosaicLoop(MosaicStart, r, 1, aoi)
    IN  IF st.at = "ShapelyError"
        THEN [raised |-> TRUE, tiles |-> <<>>, mosaic |-> None, cover |-> 0]
        ELSE [raised |-> FALSE] @@ MosaicReturn(st, aoi, mincover)

-----------------------------------------------------------------------------
(* The mosaic builder run on its own, one loop iteration per step *)

\* the AOI's cells and one cell outside of it
Universe == 1 .. (AoiCells + 1)
Footprints == (SUBSET Universe) \ {{}}
\* Processor.min_cover: cli.py limits --min-cover to 1..100
MinCovers == {1, 66, 100}

\* a catalog item with footprint fp
Scene(i, fp) == [id |-> i, geometry |-> fp, valid |-> TRUE]

SeqsUpTo(S, n) == UNION {[1 .. k -> S] : k \in 0 .. n}

\* every list of at most MaxRes footprints over the grid
ExhaustiveInputs ==
    {[aoi |-> 1 .. AoiCells, res |-> [i \in DOMAIN fs |-> Scene(i, fs[i])]] :
        fs \in SeqsUpTo(Footprints, MaxRes)}

\* many small footprints, one cell each, over an AOI of n or n + 1 cells,
\* with or without a last candidate whose footprint is the whole AOI
FragmentedInputs ==
    {[aoi |-> 1 .. (n + more),
      res |-> [i \in 1 .. (n + whole) |->
                  IF i <= n THEN Scene(i, {i}) ELSE Scene(i, 1 .. (n + more))]] :
        n \in (MAX_TILES - 1) .. (MAX_TILES + FragExtra),
        more \in 0 .. 1, whole \in 0 .. 1}

MosaicInit ==
    /\ \E inp \in ExhaustiveInputs \cup FragmentedInputs :
          /\ aoi_geom = inp.aoi
          /\ res = inp.res
    /\ min_cover \in MinCovers
    /\ idx = 0
    /\ loopst = MosaicStart
    /\ ret = None
    /\ max_clouds = 100
    /\ min_confidence = 0
    /\ mask_bands = {}
    /\ order = FALSE
    /\ download = FALSE
    /\ pc = "idle"
    /\ date_i = 1
    /\ aoi_state = AOI_init
    /\ locals = CallLocals
    /\ queries = <<>>
    /\ log = <<>>
    /\ evaluated = None
    /\ downloads = {}
    /\ attempt = NoAttempt
    /\ trace = <<>>
    /\ order_state = "pending"
    /\ elapsed = 0
    /\ pool = NoPool
    /\ unit = None
    /\ out = None

BuildMosaicIterate ==
    /\ ret = None
    /\ loopst.at = "loop"
    /\ idx < Len(res)
    /\ idx' = idx + 1
    /\ loopst' = MosaicStep(loopst, res[idx + 1], aoi_geom)
    /\ UNCHANGED <<res, ret, configvars, callvars, sidevars>>

BuildMosaicReturn ==
    /\ ret = None
    /\ \/ loopst.at \in {"return100", "break"}
       \/ loopst.at = "loop" /\ idx = Len(res)
    /\ ret' = Some(MosaicReturn(loopst, aoi_geom, min_cover))
    /\ UNCHANGED <<res, idx, loopst, configvars, callvars, sidevars>>

MosaicNext == BuildMosaicIterate \/ BuildMosaicReturn

SpecMosaic == MosaicInit /\ [][MosaicNext]_vars

-----------------------------------------------------------------------------
(* item_metadata_cloudiness: visible_percent and cloud_cover are None or     *)
(* Some(value); cloud_cover is held in hundredths, so cloud_cover * 100 is   *)
(* the held number.  None * 100 raises TypeError.                            *)
item_metadata_cloudiness(item) ==
    LET visible_percent == item.visible_percent
    IN  IF visible_percent # None /\ visible_percent[1] # 0
        THEN [raised |-> FALSE, value |-> 100 - visible_percent[1]]
        ELSE IF item.cloud_cover = None
             THEN [raised |-> TRUE, value |-> 0]
             ELSE [raised |-> FALSE, value |-> item.cloud_cover[1]]

(* sorted(items, key=item_metadata_cloudiness): a stable insertion sort *)
CloudKey(item) == item_metadata_cloudiness(item).value

RECURSIVE InsertByKey(_, _)
InsertByKey(s, x) ==
    IF s = <<>> THEN <<x>>
    ELSE IF CloudKey(s[Len(s)]) <= CloudKey(x) THEN Append(s, x)
         ELSE Append(InsertByKey(SubSeq(s, 1, Len(s) - 1), x), s[Len(s)])

RECURSIVE sorted(_)
sorted(items) ==
    IF items = <<>> THEN <<>>
    ELSE InsertByKey(sorted(SubSeq(items, 1, Len(items) - 1)), items[Len(items)])

(* Processor.search_date: the catalog's answer (or its failure), ranked by   *)
(* cloudiness (line 152; the ranking by quality first, line 150, differs     *)
(* only in the key).  A key that raises makes the whole search raise.        *)
search_date(response) ==
    IF response.failed
       \/ \E i \in DOMAIN response.items :
              item_metadata_cloudiness(response.items[i]).raised
    THEN [raised |-> TRUE, res |-> <<>>]
    ELSE [raised |-> FALSE, res |-> sorted(response.items)]

-----------------------------------------------------------------------------
(* Exact fractions for the float arithmetic of get_clouds *)
RECURSIVE GCD(_, _)
GCD(a, b) == IF b = 0 THEN a ELSE GCD(b, a % b)
Frac(n, d) == LET g == GCD(n, d) IN IF g = 0 THEN [n |-> 0, d |-> 1]
                                     ELSE [n |-> n \div g, d |-> d \div g]
FracAdd(x, y) == Frac(x.n * y.d + y.n * x.d, x.d * y.d)
FracMul(x, y) == Frac(x.n * y.n, x.d * y.d)
\* int(x) for x >= 0
FracInt(x) == x.n \div x.d

(* Processor.download_udm: on_complete adds the ids whose asset arrived to   *)
(* the dict that is the function's default argument                          *)
download_udm(dl, tiles, fresh) ==
    dl \cup {tiles[i].item.id : i \in {j \in DOMAIN tiles :
                tiles[j].item.udm # None /\ tiles[j].item.id \in fresh}}

\* get_udm_clouds + udm2_analysis on the item's mask: (clear, cloud, confidence)
get_udm_clouds(tile) == tile.item.udm[1]

\* a plausible slip: the metadata strategy reports full confidence
TileClouds_MetadataConfident(tile, dl, fresh, stale_ok) ==
    IF mask_bands # {}
    THEN IF tile.item.id \notin dl \/ (tile.item.id \notin fresh /\ ~stale_ok)
         THEN [raised |-> TRUE, clouds |-> Frac(0, 1), confidence |-> Frac(0, 1)]
         ELSE LET udm == tile.item.udm[1]
              IN  IF udm.clear + udm.cloud = 0
                  THEN [raised |-> FALSE, clouds |-> Frac(0, 1),
                        confidence |-> Frac(0, 1)]
                  ELSE [raised |-> FALSE,
                        clouds |-> Frac(100 * udm.cloud, udm.clear + udm.cloud),
                        confidence |-> Frac(udm.confidence, 1)]
    ELSE LET c == item_metadata_cloudiness(tile.item)
         IN  [raised |-> c.raised, clouds |-> Frac(c.value, 1),
              confidence |-> Frac(100, 1)]

\* a plausible slip: a tile without a mask counts as cloud free
TileClouds_MissingIsClear(tile, dl, fresh, stale_ok) ==
    IF mask_bands # {}
    THEN IF tile.item.id \notin dl \/ (tile.item.id \notin fresh /\ ~stale_ok)
         THEN [raised |-> FALSE, clouds |-> Frac(0, 1), confidence |-> Frac(0, 1)]
         ELSE LET udm == tile.item.udm[1]
              IN  IF udm.clear + udm.cloud = 0
                  THEN [raised |-> FALSE, clouds |-> Frac(0, 1),
                        confidence |-> Frac(0, 1)]
                  ELSE [raised |-> FALSE,
                        clouds |-> Frac(100 * udm.cloud, udm.clear + udm.cloud),
                        confidence |-> Frac(udm.confidence, 1)]
    ELSE LET c == item_metadata_cloudiness(tile.item)
         IN  [raised |-> c.raised, clouds |-> Frac(c.value, 1),
              confidence |-> Frac(0, 1)]

\* the per-tile part of get_clouds: [raised], or the tile's clouds and confidence
TileClouds(tile, dl, fresh, stale_ok) ==
    IF mask_bands # {}
    THEN IF tile.item.id \notin dl
         THEN [raised |-> TRUE, clouds |-> Frac(0, 1), confidence |-> Frac(0, 1)]
         ELSE IF tile.item.id \notin fresh /\ ~stale_ok
         THEN [raised |-> TRUE, clouds |-> Frac(0, 1), confidence |-> Frac(0, 1)]
         ELSE LET udm == get_udm_clouds(tile)
              IN  IF udm.clear + udm.cloud = 0
                  THEN [raised |-> FALSE, clouds |-> Frac(0, 1),
                        confidence |-> Frac(0, 1)]
                  ELSE [raised |-> FALSE,
                        clouds |-> Frac(100 * udm.cloud, udm.clear + udm.cloud),
                        confidence |-> Frac(udm.confidence, 1)]
    ELSE LET c == item_metadata_cloudiness(tile.item)
         IN  [raised |-> c.raised, clouds |-> Frac(c.value, 1),
              confidence |-> Frac(0, 1)]

\* a plausible slip: the tiles' values are added up unweighted
Weight_Unit(tile, mosaic) == Frac(1, 1)

\* tile.area / mosaic.area, for a mosaic of positive area
Weight(tile, mosaic) == Frac(area(tile.geom), area(mosaic))

\* the loop of get_clouds over tiles i..Len(tiles); a mosaic of area 0 makes
\* the division raise ZeroDivisionError
RECURSIVE CloudsLoop(_, _, _, _, _, _, _)
CloudsLoop(tiles, i, mosaic, dl, fresh, stale_ok, acc) ==
    IF i > Len(tiles) THEN acc
    ELSE LET t == TileClouds(tiles[i], dl, fresh, stale_ok)
         IN  IF t.raised \/ area(mosaic) = 0
             THEN [acc EXCEPT !.raised = TRUE]
             ELSE LET w == Weight(tiles[i], mosaic)
                  IN  CloudsLoop(tiles, i + 1, mosaic, dl, fresh, stale_ok,
                        [raised |-> FALSE,
                         mosaic_clouds |-> FracAdd(acc.mosaic_clouds, FracMul(t.clouds, w)),
                         mosaic_confidence |-> FracAdd(acc.mosaic_confidence,
                                                       FracMul(t.confidence, w)),
                         tiles |-> Append(acc.tiles,
                                     [tiles[i] EXCEPT !.clouds = Some(t.clouds),
                                                      !.confidence = Some(t.confidence)])])

(* Processor.get_clouds: [raised, clouds, confidence, tiles, downloads] *)
get_clouds(tiles, mosaic, dl0, fresh, stale_ok) ==
    LET dl == IF mask_bands # {} THEN download_udm(dl0, tiles, fresh) ELSE dl0
        r == CloudsLoop(tiles, 1, mosaic, dl, fresh, stale_ok,
                 [raised |-> FALSE, mosaic_clouds |-> Frac(0, 1),
                  mosaic_confidence |-> Frac(0, 1), tiles |-> <<>>])
    IN  [raised |-> r.raised,
         clouds |-> FracInt(r.mosaic_clouds),
         confidence |-> FracInt(r.mosaic_confidence),
         tiles |-> r.tiles,
         downloads |-> dl]

-----------------------------------------------------------------------------
(* The catalog *)

\* Processor.dates: days, newest first (create_date_range reverses the range)
dates == [i \in 1 .. NumDates |-> NumDates + 1 - i]

Mask(clear, cloud, confidence) ==
    Some([clear |-> clear, cloud |-> cloud, confidence |-> confidence])

CatalogItem(id, geometry, valid, visible_percent, cloud_cover, udm) ==
    [id |-> id, geometry |-> geometry, valid |-> valid,
     visible_percent |-> visible_percent, cloud_cover |-> cloud_cover, udm |-> udm]

\* the scenes the catalog may answer with, in the order "acquired desc"
Catalogue ==
    << CatalogItem(1, Universe, TRUE, Some(90), Some(10), Mask(9, 1, 80)),
       CatalogItem(2, 1 .. AoiCells, TRUE, None, Some(60), Mask(1, 1, 40)),
       CatalogItem(3, 1 .. (AoiCells - 1), TRUE, Some(100), Some(0), Mask(0, 0, 0)),
       CatalogItem(4, 2 .. (AoiCells + 1), TRUE, Some(0), Some(20), None),
       \* a footprint shapely cannot process
       CatalogItem(5, 1 .. AoiCells, FALSE, Some(70), Some(30), None),
       \* no cloud metadata at all
       CatalogItem(6, {AoiCells}, TRUE, None, None, None) >>

\* the answers to one query: the catalog fails, or returns up to MaxRes scenes
Responses ==
    {[failed |-> TRUE, items |-> <<>>]} \cup
    {[failed |-> FALSE, items |-> SelectSeq(Catalogue, LAMBDA it : it.id \in ids)] :
        ids \in {x \in SUBSET (1 .. Len(Catalogue)) : Cardinality(x) <= MaxRes}}

\* which mask downloads complete during one get_clouds
FreshChoices(response) ==
    IF mask_bands = {} \/ max_clouds >= 100 THEN {{}}
    ELSE SUBSET {response.items[i].id : i \in
                    {j \in DOMAIN response.items : response.items[j].udm # None}}

\* whether the file of a mask fetched for an earlier date is still there
StaleChoices ==
    IF mask_bands = {} \/ max_clouds >= 100 \/ downloads = {} THEN {TRUE}
    ELSE BOOLEAN

-----------------------------------------------------------------------------
(* Processor.get_tiles and Processor.__call__ *)

\* raised: "no", "ShapelyError" or "Exception"; has_tiles: build_mosaic
\* returned a non-empty tile list; accepted: get_tiles returned this date
LogEntry(raised, has_tiles, accepted) ==
    [raised |-> raised, has_tiles |-> has_tiles, accepted |-> accepted]

\* a plausible slip: a strict comparison with the cloud threshold
CloudsAccepted_Strict(clouds, confidence) ==
    clouds < max_clouds /\ confidence >= min_confidence

\* the test of get_tiles on the evaluated mosaic
CloudsAccepted(clouds, confidence) ==
    clouds <= max_clouds /\ confidence >= min_confidence

\* a plausible slip: the accepted date is noted but the loop is not left
Returns_Never(entry) == FALSE

\* whether the iteration ends in `return date, tiles`
Returns(entry) == entry.accepted

\* plausible slips: `break` in place of `continue` in the ShapelyError handler,
\* and the general handler around the loop instead of inside it
NextDate_BreakOnShapelyError(i, entry) ==
    IF entry.raised = "ShapelyError" THEN Len(dates) + 1 ELSE i + 1
NextDate_BreakOnException(i, entry) ==
    IF entry.raised = "Exception" THEN Len(dates) + 1 ELSE i + 1

\* where the loop goes after an iteration that did not return: `continue`
\* after a ShapelyError, the end of the except block, or the end of the body
NextDate(i, entry) == i + 1

\* a plausible slip: the tracker takes the latest value, not the best one
max_Latest(a, b) == b

\* Python's max and min of two numbers
max(a, b) == IF a >= b THEN a ELSE b
min(a, b) == IF a <= b THEN a ELSE b

\* the tiles for which the dict of download_udm holds no mask
MissingMasks(tiles, dl) ==
    {tiles[i].item.id : i \in {j \in DOMAIN tiles : tiles[j].item.id \notin dl}}

\* the body of `for date in self.dates` for one date: what it leaves behind
get_tiles_date(response, fresh, stale_ok) ==
    LET s == search_date(response)
        base == [entry |-> LogEntry("Exception", FALSE, FALSE),
                 evaluated |-> None,
                 attempt |-> NoAttempt,
                 max_cover |-> aoi_state.max_cover,
                 min_clouds |-> aoi_state.min_clouds,
                 downloads |-> downloads,
                 tiles |-> <<>>]
    IN  IF s.raised THEN base
        ELSE
        LET b == build_mosaic(s.res, aoi_geom, min_cover)
        IN  IF b.raised
            THEN [base EXCEPT !.entry.raised = "ShapelyError"]
            ELSE
            LET seen == [base EXCEPT !.max_cover = max(aoi_state.max_cover, b.cover),
                                     !.attempt.cover = Some(b.cover),
                                     !.entry.raised = "no"]
            IN  IF b.tiles = <<>> THEN seen
                ELSE IF max_clouds < 100
                THEN LET c == get_clouds(b.tiles, b.mosaic[1], downloads, fresh, stale_ok)
                         missing == IF mask_bands # {}
                                    THEN MissingMasks(b.tiles, c.downloads) ELSE {}
                     IN  IF c.raised
                         THEN [seen EXCEPT !.downloads = c.downloads,
                                           !.attempt.missing = missing,
                                           !.entry.raised = "Exception",
                                           !.entry.has_tiles = TRUE]
                         ELSE [seen EXCEPT
                                 !.downloads = c.downloads,
                                 !.attempt.missing = missing,
                                 !.min_clouds = min(aoi_state.min_clouds, c.clouds),
                                 !.tiles = c.tiles,
                                 !.evaluated = Some([clouds |-> c.clouds,
                                                     confidence |-> c.confidence]),
                                 !.entry = LogEntry("no", TRUE,
                                             CloudsAccepted(c.clouds, c.confidence))]
                ELSE [seen EXCEPT !.tiles = b.tiles,
                                  !.entry = LogEntry("no", TRUE, TRUE)]

Init ==
    /\ aoi_geom = 1 .. AoiCells
    /\ min_cover \in MinCovers
    /\ max_clouds \in {10, 100}
    \* with max_clouds = 100 get_clouds is never called (line 280) and neither
    \* min_confidence nor mask_bands is read: one value of each is enough
    /\ min_confidence \in (IF max_clouds < 100 THEN {0, 80} ELSE {0})
    /\ mask_bands \in (IF max_clouds < 100 THEN {{}, {5}} ELSE {{}})
    \* cli.py:152-153: --download turns ordering on
    /\ order \in BOOLEAN
    /\ download \in {d \in BOOLEAN : d => order}
    /\ res = <<>>
    /\ idx = 0
    /\ loopst = MosaicStart
    /\ ret = None
    /\ pc = "call"
    /\ date_i = 1
    /\ aoi_state = AOI_init
    /\ locals = CallLocals
    /\ queries = <<>>
    /\ log = <<>>
    /\ evaluated = None
    /\ downloads = {}
    /\ attempt = NoAttempt
    /\ trace = <<>>
    /\ order_state = "pending"
    /\ elapsed = 0
    /\ pool = NoPool
    /\ unit = None
    /\ out = None

\* __call__ enters get_tiles: the code before the loop works ...
GetTilesEnter ==
    /\ pc = "call"
    /\ pc' = "get_tiles"
    /\ UNCHANGED <<date_i, aoi_state, locals, queries, log, evaluated, downloads,
                   attempt, ordervars,
                   mosaicvars, configvars, sidevars>>

\* ... or an exception leaves get_tiles and __call__ catches it: tiles = []
GetTilesRaise ==
    /\ pc = "call"
    /\ pc' = "after_search"
    /\ locals' = [locals EXCEPT !.tiles = <<>>]
    /\ UNCHANGED <<date_i, aoi_state, queries, log, evaluated, downloads,
                   attempt, ordervars,
                   mosaicvars, configvars, sidevars>>

\* one iteration of the loop over the dates
GetTilesDate ==
    /\ pc = "get_tiles"
    /\ date_i <= Len(dates)
    /\ \E response \in Responses :
       \E fresh \in FreshChoices(response) :
       \E stale_ok \in StaleChoices :
       \E e \in {get_tiles_date(response, fresh, stale_ok)} :
              /\ queries' = Append(queries, dates[date_i])
              /\ log' = Append(log, e.entry)
              /\ evaluated' = e.evaluated
              /\ aoi_state' = [max_cover |-> e.max_cover, min_clouds |-> e.min_clouds]
              /\ downloads' = e.downloads
              /\ attempt' = e.attempt
              /\ IF Returns(e.entry)
                 THEN /\ locals' = [locals EXCEPT !.date_bound = TRUE,
                                                  !.date = Some(dates[date_i]),
                                                  !.tiles = e.tiles]
                      /\ pc' = "after_search"
                      /\ date_i' = date_i
                 ELSE /\ date_i' = NextDate(date_i, e.entry)
                      /\ UNCHANGED <<locals, pc>>
    /\ UNCHANGED <<ordervars, mosaicvars, configvars, sidevars>>

\* the loop is over: return None, []
GetTilesExhausted ==
    /\ pc = "get_tiles"
    /\ date_i > Len(dates)
    /\ locals' = [locals EXCEPT !.date_bound = TRUE, !.date = None, !.tiles = <<>>]
    /\ pc' = "after_search"
    /\ UNCHANGED <<date_i, aoi_state, queries, log, evaluated, downloads,
                   attempt, ordervars,
                   mosaicvars, configvars, sidevars>>

\* `if tiles:` and `if self.order:` (lines 347-348)
OrderWanted(l) == l.tiles # <<>> /\ order

\* a plausible slip: the download does not ask for an order id
DownloadWanted_NoOrderId(l) == l.tiles # <<>> /\ download

\* `if order_id and self.download:` inside `if tiles:` (lines 347, 354)
DownloadWanted(l) == l.tiles # <<>> /\ l.order_id # None /\ download

\* create_order, when tiles were found and ordering is on: an id, or an exception
CreateOrder ==
    /\ pc = "after_search"
    /\ OrderWanted(locals)
    /\ \E ok \in BOOLEAN :
          locals' = [locals EXCEPT !.order_id = IF ok THEN Some(1) ELSE None]
    /\ trace' = Append(trace, "create_order")
    /\ pc' = "after_order"
    /\ UNCHANGED <<date_i, aoi_state, queries, log, evaluated, downloads,
                   attempt, order_state, elapsed, mosaicvars, configvars, sidevars>>

SkipOrder ==
    /\ pc = "after_search"
    /\ ~OrderWanted(locals)
    /\ pc' = "after_order"
    /\ UNCHANGED <<date_i, aoi_state, locals, queries, log, evaluated, downloads,
                   attempt, ordervars,
                   mosaicvars, configvars, sidevars>>

\* the states is_ready can meet: the order is not ready, it is ready, the
\* request raises APIException (expected by wait), or it raises something else
OrderStates == {"pending", "success", "APIException", "error"}

\* a plausible slip: no timeout is given to wait()
TimeoutExpired_Never(t) == FALSE

\* wait(): the deadline has passed
TimeoutExpired(t) == t >= WaitTimeout

\* wait(): a round of polling takes time, the sleep ends at the deadline at the latest
Sleeps(t) == {min(t + d, WaitTimeout) : d \in 1 .. MaxSleep}

\* download_order is entered: wait() starts polling
DownloadOrder ==
    /\ pc = "after_order"
    /\ DownloadWanted(locals)
    /\ trace' = Append(trace, "download_order")
    /\ elapsed' = 0
    /\ pc' = "wait"
    /\ UNCHANGED <<date_i, aoi_state, locals, queries, log, evaluated, downloads,
                   attempt, order_state, mosaicvars, configvars, sidevars>>

SkipDownload ==
    /\ pc = "after_order"
    /\ ~DownloadWanted(locals)
    /\ pc' = "return"
    /\ UNCHANGED <<date_i, aoi_state, locals, queries, log, evaluated, downloads,
                   attempt, ordervars,
                   mosaicvars, configvars, sidevars>>

\* one round of wait(): is_ready is called; if the order is not ready the
\* deadline is checked, TimeoutExpired makes download_order warn and return
\* None, otherwise wait() sleeps.  Any other exception leaves download_order
\* and is caught by __call__.
WaitPoll ==
    /\ pc = "wait"
    /\ CASE order_state = "success" ->
              /\ pc' = "fetch"
              /\ UNCHANGED <<locals, trace, elapsed>>
         [] order_state = "error" ->
              /\ pc' = "return"
              /\ locals' = [locals EXCEPT !.zip_file = None]
              /\ UNCHANGED <<trace, elapsed>>
         [] OTHER ->
              IF TimeoutExpired(elapsed)
              THEN /\ pc' = "return"
                   /\ locals' = [locals EXCEPT !.zip_file = None]
                   /\ trace' = Append(trace, "TimeoutExpired")
                   /\ UNCHANGED elapsed
              ELSE /\ elapsed' \in Sleeps(elapsed)
                   /\ UNCHANGED <<pc, locals, trace>>
    /\ UNCHANGED <<date_i, aoi_state, queries, log, evaluated, downloads,
                   attempt, order_state, mosaicvars, configvars, sidevars>>

\* the order is ready: its files are fetched, or fetching raises
FetchOrder ==
    /\ pc = "fetch"
    /\ \E ok \in BOOLEAN :
          locals' = [locals EXCEPT
                       !.zip_file = IF ok THEN Some(<<"file">>) ELSE None]
    /\ pc' = "return"
    /\ UNCHANGED <<date_i, aoi_state, queries, log, evaluated, downloads,
                   attempt, ordervars, mosaicvars, configvars, sidevars>>

\* the ordering service: the order changes state while it is waited for
OrderService ==
    /\ pc = "wait"
    /\ order_state' \in OrderStates \ {order_state}
    /\ UNCHANGED <<pc, date_i, aoi_state, locals, queries, log, evaluated,
                   downloads, attempt, trace, elapsed, mosaicvars, configvars, sidevars>>

\* return (aoi, date, tiles, order_id, zip_file): date must be bound
CallReturn ==
    /\ pc = "return"
    /\ pc' = IF locals.date_bound THEN "returned" ELSE "UnboundLocalError"
    /\ UNCHANGED <<date_i, aoi_state, locals, queries, log, evaluated, downloads,
                   attempt, ordervars,
                   mosaicvars, configvars, sidevars>>

Call ==
    \/ GetTilesEnter
    \/ GetTilesRaise
    \/ GetTilesDate
    \/ GetTilesExhausted
    \/ CreateOrder
    \/ SkipOrder
    \/ DownloadOrder
    \/ SkipDownload
    \/ WaitPoll
    \/ FetchOrder
    \/ CallReturn

\* the worker's steps, and the ordering service beside it
Next == Call \/ OrderService

Spec == Init /\ [][Next]_vars

\* the pool runs the worker's call until it returns; nothing obliges the
\* ordering service to complete the order
SpecLive == Spec /\ WF_vars(Call)

-----------------------------------------------------------------------------
(* Functions applied on their own: item_metadata_cloudiness, the date window *)
(* of search_date, get_clouds                                                *)

\* Bounds of their inputs: tiles in a mosaic, cells in a tile, days in a frame.
UnitTiles == 3
UnitArea == 2
MaxFrame == 3
\* Pixels in a mask array.
UnitPixels == 3

\* a pixel of a udm raster: two bit flags
PixelValues == 0 .. 3

\* numpy's v & bit for a pixel value v and a mask of one bit (1 or 2)
BitAnd(v, bit) == IF (v \div bit) % 2 = 1 THEN bit ELSE 0

\* (img & bit).sum(): the sum of the masked values over the pixels
RECURSIVE MaskedSum(_, _)
MaskedSum(img, bit) ==
    IF img = <<>> THEN 0
    ELSE BitAnd(Head(img), bit) + MaskedSum(Tail(img), bit)

(* Processor.udm1_analysis *)
udm1_analysis(img) ==
    [clear |-> MaskedSum(img, 1), cloud |-> MaskedSum(img, 2), confidence |-> 0]

\* a plausible slip: the frame is kept as given
Processor_frame_AsGiven(frame) == frame

\* Processor.__init__: self.frame = frame - 1
Processor_frame(frame) == frame - 1

\* search_date: the two date_range filters on "acquired", days as integers
date_filters(date, self_frame) ==
    LET d1 == date + 1
        d2 == date - self_frame
    IN  [lt |-> d1, gte |-> d2]

\* the acquisition days that pass both filters, among the days around the date
acquired_days(f, date) ==
    {day \in (date - MaxFrame - 1) .. (date + 1) : f.gte <= day /\ day < f.lt}

\* visible_percent and cloud_cover (in hundredths) as the catalog may give them
MetadataItems ==
    {CatalogItem(1, {1}, TRUE, vp, cc, None) :
        vp \in {None, Some(0), Some(40), Some(100)},
        cc \in {None, Some(0), Some(20)}}

\* per-tile cloud data: metadata and masks that give the cloud-fractions 10,
\* 20 and 30, and one more whose mask gives a fraction that is not a whole
\* number (100/3)
CloudData ==
    { [vp |-> Some(90), udm |-> Mask(9, 1, 80)],
      [vp |-> Some(80), udm |-> Mask(4, 1, 60)],
      [vp |-> Some(70), udm |-> Mask(7, 3, 40)],
      [vp |-> Some(45), udm |-> Mask(2, 1, 50)] }

\* the cells of the k-th tile when the tiles before it take up `before` cells
RECURSIVE CellsBefore(_, _)
CellsBefore(areas, k) ==
    IF k = 1 THEN 0 ELSE CellsBefore(areas, k - 1) + areas[k - 1]
TileOf(k, a, before, data) ==
    Tile(CatalogItem(k, (before + 1) .. (before + a), TRUE, data.vp, Some(0),
                     data.udm),
         (before + 1) .. (before + a))

\* a mosaic of n disjoint tiles with the given areas and cloud data
TileList(n, areas, data) ==
    [k \in 1 .. n |-> TileOf(k, areas[k], CellsBefore(areas, k), data[k])]

\* tiles of 1..UnitArea cells each, or tiles that all have area 0 (the mosaic
\* of an AOI that is a point or a line)
AreaChoices(n) == [1 .. n -> 1 .. UnitArea] \cup {[k \in 1 .. n |-> 0]}

MosaicOf(tiles) == UNION {tiles[k].geom : k \in DOMAIN tiles}

UnitInit ==
    /\ aoi_geom = 1 .. AoiCells
    /\ min_cover = 100
    /\ max_clouds = 10
    /\ min_confidence = 0
    /\ mask_bands \in {{}, {5}}
    /\ order = FALSE
    /\ download = FALSE
    /\ res = <<>>
    /\ idx = 0
    /\ loopst = MosaicStart
    /\ ret = None
    /\ pc = "idle"
    /\ date_i = 1
    /\ aoi_state = AOI_init
    /\ locals = CallLocals
    /\ queries = <<>>
    /\ log = <<>>
    /\ evaluated = None
    /\ downloads = {}
    /\ attempt = NoAttempt
    /\ trace = <<>>
    /\ order_state = "pending"
    /\ elapsed = 0
    /\ pool = NoPool
    /\ \/ \E it \in MetadataItems :
             unit = Some([fn |-> "item_metadata_cloudiness", item |-> it])
       \/ \E d \in 1 .. 2, f \in 1 .. MaxFrame :
             unit = Some([fn |-> "search_date", date |-> d, frame |-> f])
       \/ \E n \in 1 .. UnitPixels : \E img \in [1 .. n -> PixelValues] :
             unit = Some([fn |-> "udm1_analysis", img |-> img])
       \/ \E n \in 1 .. UnitTiles :
          \E areas \in AreaChoices(n), data \in [1 .. n -> CloudData] :
             unit = Some([fn |-> "get_clouds",
                          tiles |-> TileList(n, areas, data),
                          mosaic |-> MosaicOf(TileList(n, areas, data))])
    /\ out = None

ApplyCloudiness ==
    /\ out = None
    /\ unit[1].fn = "item_metadata_cloudiness"
    /\ out' = Some(item_metadata_cloudiness(unit[1].item))
    /\ UNCHANGED <<unit, pool, mosaicvars, configvars, callvars>>

\* a Processor built with the frame, then the filters of one search_date
ApplySearchDate ==
    /\ out = None
    /\ unit[1].fn = "search_date"
    /\ out' = Some(date_filters(unit[1].date, Processor_frame(unit[1].frame)))
    /\ UNCHANGED <<unit, pool, mosaicvars, configvars, callvars>>

\* get_clouds on a fresh dict, every mask arriving
ApplyGetClouds ==
    /\ out = None
    /\ unit[1].fn = "get_clouds"
    /\ LET ts == unit[1].tiles
           ids == {ts[k].item.id : k \in DOMAIN ts}
       IN  out' = Some(get_clouds(ts, unit[1].mosaic, {}, ids, TRUE))
    /\ UNCHANGED <<unit, pool, mosaicvars, configvars, callvars>>

ApplyUdm1Analysis ==
    /\ out = None
    /\ unit[1].fn = "udm1_analysis"
    /\ out' = Some(udm1_analysis(unit[1].img))
    /\ UNCHANGED <<unit, pool, mosaicvars, configvars, callvars>>

UnitNext ==
    ApplyCloudiness \/ ApplySearchDate \/ ApplyGetClouds \/ ApplyUdm1Analysis

SpecUnit == UnitInit /\ [][UnitNext]_vars

-----------------------------------------------------------------------------
(* The worker pool of cli: one Processor called for several AOIs by threads, *)
(* followed through get_clouds, where the calls meet in the dict that is     *)
(* download_udm's default argument                                           *)

\* Number of workers (AOIs in process at the same time).
NumWorkers == 2

Workers == 1 .. NumWorkers

\* the mosaics a worker may have built for its AOI: one tile, of a scene of
\* the catalogue that shapely can process
PoolMosaics ==
    {<<Tile(Catalogue[i], intersection(Catalogue[i].geometry, 1 .. AoiCells))>> :
        i \in {j \in DOMAIN Catalogue : Catalogue[j].valid}}

\* a worker about to call get_clouds on its tiles
PoolWorker(tiles) ==
    [at |-> "get_clouds", tiles |-> tiles, wrote |-> {}, found |-> {},
     raised |-> FALSE]

PoolInit ==
    /\ aoi_geom = 1 .. AoiCells
    /\ min_cover = 100
    /\ max_clouds = 10
    /\ min_confidence = 0
    /\ mask_bands = {5}
    /\ order = FALSE
    /\ download = FALSE
    /\ res = <<>>
    /\ idx = 0
    /\ loopst = MosaicStart
    /\ ret = None
    /\ pc = "idle"
    /\ date_i = 1
    /\ aoi_state = AOI_init
    /\ locals = CallLocals
    /\ queries = <<>>
    /\ log = <<>>
    /\ evaluated = None
    /\ downloads = {}
    /\ attempt = NoAttempt
    /\ trace = <<>>
    /\ order_state = "pending"
    /\ elapsed = 0
    /\ pool \in [Workers -> {PoolWorker(ts) : ts \in PoolMosaics}]
    /\ unit = None
    /\ out = None

\* get_clouds, lines 228-231: download_udm puts the masks that arrive into
\* the shared dict
PoolDownloadUdm(w) ==
    /\ pool[w].at = "get_clouds"
    /\ \E fresh \in SUBSET {pool[w].tiles[k].item.id : k \in DOMAIN pool[w].tiles} :
          /\ downloads' = download_udm(downloads, pool[w].tiles, fresh)
          /\ pool' = [pool EXCEPT
                        ![w].at = "loop",
                        ![w].wrote = download_udm({}, pool[w].tiles, fresh)]
    /\ UNCHANGED <<unit, out, mosaicvars, configvars, pc, date_i, aoi_state,
                   locals, queries, log, evaluated, attempt, ordervars>>

\* get_clouds, lines 239-245: the loop looks every tile up in the dict and
\* raises for a tile that is not in it
PoolEvaluate(w) ==
    /\ pool[w].at = "loop"
    /\ pool' = [pool EXCEPT
                  ![w].at = "done",
                  ![w].found = {pool[w].tiles[k].item.id : k \in DOMAIN pool[w].tiles}
                                  \cap downloads,
                  ![w].raised = MissingMasks(pool[w].tiles, downloads) # {}]
    /\ UNCHANGED <<unit, out, mosaicvars, configvars, callvars>>

PoolNext == \E w \in Workers : PoolDownloadUdm(w) \/ PoolEvaluate(w)

SpecPool == PoolInit /\ [][PoolNext]_vars

-----------------------------------------------------------------------------
(* Properties of the date search (Spec) *)

\* get_tiles has returned to __call__ (date and tiles are bound)
SearchReturned == locals.date_bound
\* get_tiles returned the i-th date of the sequence
ReturnedDate(i) == SearchReturned /\ locals.date = Some(dates[i])
\* the search has gone on past the i-th date: the next date was queried, or
\* is the one the loop is about to query
WentOn(i) ==
    i < Len(dates) => (Len(queries) > i \/ (pc = "get_tiles" /\ date_i = i + 1))
\* the last date tried produced tiles and passes the cloud test (or there is none)
LastEligible ==
    /\ log # <<>>
    /\ log[Len(log)].has_tiles
    /\ \/ max_clouds >= 100
       \/ /\ evaluated # None
          /\ evaluated[1].clouds <= max_clouds
          /\ evaluated[1].confidence >= min_confidence

\* C1: the dates are queried in the supplied order, each at most once; the
\* search stops at the first accepted date, which is the date returned, and no
\* later date is queried after it; with no accepted date the result is (None, []).
C1_FirstAcceptedWins ==
    /\ Len(queries) <= Len(dates)
    /\ queries = SubSeq(dates, 1, Len(queries))
    /\ Len(log) = Len(queries)
    /\ \A i \in DOMAIN log :
          log[i].accepted => (i = Len(queries) /\ ReturnedDate(i))
    /\ SearchReturned =>
          \/ /\ log # <<>>
             /\ log[Len(log)].accepted
             /\ locals.date = Some(dates[Len(log)])
             /\ locals.tiles # <<>>
          \/ /\ \A i \in DOMAIN log : ~log[i].accepted
             /\ Len(queries) = Len(dates)
             /\ locals.date = None
             /\ locals.tiles = <<>>

\* the first date was accepted and the call is over: the second was never queried
C1_Witness ==
    /\ pc = "returned"
    /\ ReturnedDate(1)
    /\ queries = <<dates[1]>>
    /\ Len(dates) > 1

\* C2: a date whose mosaic has tiles is accepted exactly when cloud checking is
\* off (max_clouds >= 100) or the evaluated clouds are <= max_clouds and the
\* confidence is >= min_confidence; a date without tiles is never accepted.
C2_AcceptedIffThresholds ==
    log # <<>> =>
        /\ log[Len(log)].has_tiles => (ReturnedDate(Len(log)) <=> LastEligible)
        /\ ~log[Len(log)].has_tiles => ~ReturnedDate(Len(log))

\* accepted at the limits: clouds = max_clouds, confidence = min_confidence > 0
C2_Witness ==
    /\ log # <<>>
    /\ ReturnedDate(Len(log))
    /\ evaluated # None
    /\ evaluated[1].clouds = max_clouds
    /\ evaluated[1].confidence = min_confidence
    /\ min_confidence > 0

\* C3 as stated: __call__ always returns its tuple, no error escapes from it.
C3_CallNeverRaises == pc # "UnboundLocalError"

\* C4: a ShapelyError in build_mosaic for one date does not end the search: the
\* next date is queried, and if it is eligible it is the date returned.
C4_GeometryErrorSkipsDate ==
    \A i \in DOMAIN log :
        log[i].raised = "ShapelyError" =>
            /\ ~log[i].accepted
            /\ WentOn(i)
            /\ (Len(log) > i /\ LastEligible) => ReturnedDate(Len(log))

\* geometry error on the first date, the second date returned
C4_Witness ==
    /\ pc = "returned"
    /\ Len(log) = 2
    /\ log[1].raised = "ShapelyError"
    /\ ReturnedDate(2)

\* C5 as stated: an error other than a geometry error ends the search: no later
\* date is queried and the outcome is (None, []).
C5_ErrorEndsSearch ==
    \A i \in DOMAIN log :
        log[i].raised = "Exception" =>
            /\ Len(queries) <= i
            /\ SearchReturned => (locals.date = None /\ locals.tiles = <<>>)

\* C5 amended: such an error ends only that date's attempt: the date is not
\* accepted, the next date is queried, and if it is eligible it is the date
\* returned; the outcome is (None, []) only when no later date is accepted.
C5_ErrorSkipsDate ==
    \A i \in DOMAIN log :
        log[i].raised = "Exception" =>
            /\ ~log[i].accepted
            /\ WentOn(i)
            /\ (Len(log) > i /\ LastEligible) => ReturnedDate(Len(log))
            /\ (SearchReturned /\ locals.date = None) =>
                   (Len(queries) = Len(dates) /\ \A j \in DOMAIN log : ~log[j].accepted)

\* an error on the first date, the second date returned
C5_Witness ==
    /\ pc = "returned"
    /\ Len(log) = 2
    /\ log[1].raised = "Exception"
    /\ ReturnedDate(2)

\* __call__ has made the collaborator call op, or met the timeout op
Traced(op) == \E i \in DOMAIN trace : trace[i] = op
\* get_tiles returned a date and its tiles
FoundTiles == log # <<>> /\ log[Len(log)].accepted
\* __call__ is past its search
AfterSearch ==
    pc \in {"after_search", "after_order", "wait", "fetch", "return", "returned"}

C11_Attempts ==
    /\ Traced("create_order") => (FoundTiles /\ locals.tiles # <<>>)
    /\ Traced("download_order") =>
          (Traced("create_order") /\ locals.order_id # None)
    /\ (Traced("create_order") /\ locals.order_id = None) =>
          (locals.zip_file = None /\ ~Traced("download_order"))
    /\ (AfterSearch /\ FoundTiles) =>
          (locals.date = Some(dates[Len(log)]) /\ locals.tiles # <<>>)
    /\ Len(trace) <= 3
C11_Kept ==
    AfterSearch => (locals'.date = locals.date /\ locals'.tiles = locals.tiles)

\* C11: once get_tiles has returned a date and tiles, every later step of
\* __call__ leaves them as they are, whether create_order or download_order
\* succeeds or fails; create_order is called only when tiles were found,
\* download_order only with an order id; a failed order leaves order_id and
\* zip_file None.
C11_SearchResultKept == []C11_Attempts /\ [][C11_Kept]_vars

\* the order failed, the download was wanted but not attempted, the tuple
\* still carries the date and the tiles
C11_Witness ==
    /\ pc = "returned"
    /\ download
    /\ trace = <<"create_order">>
    /\ locals.order_id = None
    /\ locals.zip_file = None
    /\ locals.date # None
    /\ locals.tiles # <<>>

TimedOut == Traced("TimeoutExpired")

\* C12: an order that is never seen ready (pending, or the status request
\* failing with APIException, at every poll) makes wait() give up at the
\* deadline: download_order returns None without raising and __call__ returns
\* with the order id set and zip_file None.  (SpecLive: the worker keeps
\* running; the order may stay pending for ever.)
C12_PendingOrderTimesOut ==
    /\ [](TimedOut => /\ locals.order_id # None
                      /\ locals.zip_file = None
                      /\ pc \in {"return", "returned"}
                      /\ elapsed >= WaitTimeout)
    /\ [](elapsed <= WaitTimeout)
    /\ (pc = "wait") ~> (\/ order_state \in {"success", "error"}
                         \/ (TimedOut /\ pc = "returned"))

\* the call has returned after the timeout, with the order id and no files
C12_Witness ==
    /\ pc = "returned"
    /\ TimedOut
    /\ locals.order_id # None
    /\ locals.zip_file = None

C14_Start == log = <<>> => aoi_state = AOI_init
C14_Step ==
    /\ aoi_state'.max_cover >= aoi_state.max_cover
    /\ aoi_state'.min_clouds <= aoi_state.min_clouds
    /\ Len(log') = Len(log) => aoi_state' = aoi_state
    /\ Len(log') = Len(log) + 1 =>
          /\ aoi_state'.max_cover =
                IF attempt'.cover # None /\ attempt'.cover[1] > aoi_state.max_cover
                THEN attempt'.cover[1] ELSE aoi_state.max_cover
          /\ aoi_state'.min_clouds =
                IF evaluated' # None /\ evaluated'[1].clouds < aoi_state.min_clouds
                THEN evaluated'[1].clouds ELSE aoi_state.min_clouds

\* C14: the trackers start at max_cover 0 and min_clouds 100; every date
\* attempt leaves max_cover the larger of its old value and the cover
\* build_mosaic reported (rejected dates included, unchanged if build_mosaic
\* did not complete) and min_clouds the smaller of its old value and the
\* clouds get_clouds returned (unchanged if it returned nothing); no other
\* step touches them.  So max_cover never decreases and min_clouds never
\* increases.
C14_TrackersMonotone == []C14_Start /\ [][C14_Step]_vars

\* the second date covers less than the first did: max_cover keeps the first
C14_Witness ==
    /\ Len(log) = 2
    /\ attempt.cover # None
    /\ attempt.cover[1] < aoi_state.max_cover
    /\ evaluated # None
    /\ aoi_state.min_clouds < 100

MetadataWithConfidence ==
    max_clouds < 100 /\ mask_bands = {} /\ min_confidence > 0

C22_MasksScopedToDate ==
    (pc = "get_tiles" /\ date_i <= Len(dates) /\ log # <<>>) => downloads = {}

-----------------------------------------------------------------------------
(* Properties of the mosaic builder (SpecMosaic) *)

Returned == ret # None
Result == ret[1]
\* the tiles the loop accepted, and the union of their items' raw footprints
AcceptedTiles == loopst.tiles
AcceptedFootprints ==
    UNION {AcceptedTiles[i].item.geometry : i \in DOMAIN AcceptedTiles}
ContainsAoi(i) == aoi_geom \subseteq res[i].geometry
TouchesAoi(i) == res[i].geometry \cap aoi_geom # {}
\* the first candidate of the list that reaches into the AOI
IsFirstTouching(i) == TouchesAoi(i) /\ \A j \in 1 .. (i - 1) : ~TouchesAoi(j)

\* C6 as stated: a candidate whose footprint contains the AOI, at any position
\* of the list, makes build_mosaic return exactly one tile and coverage 100.
C6_AnyPositionOneTile ==
    (Returned /\ \E i \in DOMAIN res : ContainsAoi(i))
        => (Len(Result.tiles) = 1 /\ Result.cover = 100)

\* C6 amended: when the first candidate that reaches into the AOI contains the
\* AOI, build_mosaic returns exactly one tile and coverage 100; a containing
\* candidate that the loop reaches at a later position still gives coverage 100
\* and a non-empty tile list, one tile for it and one for each earlier
\* contributing candidate.
C6_FirstContainingOneTile ==
    Returned =>
        /\ \A i \in DOMAIN res :
              (IsFirstTouching(i) /\ ContainsAoi(i))
                  => (Len(Result.tiles) = 1 /\ Result.cover = 100
                      /\ Result.tiles[1].item.id = res[i].id)
        /\ \A i \in 1 .. idx :
              ContainsAoi(i) => (Result.cover = 100 /\ Len(Result.tiles) >= 1)

C6_Witness ==
    /\ Returned
    /\ Len(res) = 2
    /\ ~TouchesAoi(1)
    /\ ContainsAoi(2)
    /\ Len(Result.tiles) = 1

\* C7: every tile has a non-empty geometry that is disjoint from the geometry
\* of every tile selected before it, in the loop and in the returned list.
NoOverlap(ts) ==
    \A i \in DOMAIN ts :
        /\ ts[i].geom # {}
        /\ \A j \in 1 .. (i - 1) : ts[i].geom \cap ts[j].geom = {}

C7_TilesDisjoint ==
    /\ NoOverlap(AcceptedTiles)
    /\ Returned => NoOverlap(Result.tiles)

\* two returned tiles whose raw footprints overlap inside the AOI
C7_Witness ==
    /\ Returned
    /\ Len(Result.tiles) = 2
    /\ Result.tiles[1].item.geometry \cap Result.tiles[2].item.geometry
            \cap aoi_geom # {}

\* C8 as stated: at most MAX_TILES (64) tiles are accepted in one build, and
\* at most 64 are returned.
C8_AtMostMaxTiles ==
    /\ Len(AcceptedTiles) <= MAX_TILES
    /\ Returned => Len(Result.tiles) <= MAX_TILES

\* C9: below min_cover the result is an empty tile list and no mosaic, with
\* the coverage achieved; from min_cover on it is the accepted tiles and the
\* mosaic (the accepted footprints clipped to the AOI).
C9_RejectBelowMinCover ==
    Returned =>
        LET covered == AcceptedFootprints \cap aoi_geom
            achieved == (Cardinality(covered) * 100) \div Cardinality(aoi_geom)
        IN  /\ Result.cover = achieved
            /\ achieved < min_cover
                  => (Result.tiles = <<>> /\ Result.mosaic = None)
            /\ achieved >= min_cover
                  => (Result.tiles = AcceptedTiles /\ Result.mosaic = Some(covered))

\* a rejected build that had accepted tiles, reporting its partial coverage
C9_Witness ==
    /\ Returned
    /\ Len(AcceptedTiles) > 0
    /\ Result.tiles = <<>>
    /\ Result.mosaic = None
    /\ Result.cover > 0
    /\ Result.cover < min_cover

AcceptedUpTo(k) ==
    UNION {AcceptedTiles[i].item.geometry :
              i \in {j \in DOMAIN AcceptedTiles : AcceptedTiles[j].item.id <= k}}

\* C17: while the loop runs the accepted footprints do not cover the AOI; once
\* they do, the candidate that completed the coverage is the last one the loop
\* has taken and the last tile, the loop is left, and the result is all the
\* accepted tiles, the AOI as mosaic and coverage 100.
C17_EarlyExit ==
    /\ loopst.at = "loop" => ~(aoi_geom \subseteq AcceptedFootprints)
    /\ aoi_geom \subseteq AcceptedFootprints =>
          /\ loopst.at = "return100"
          /\ idx >= 1
          /\ AcceptedTiles[Len(AcceptedTiles)].item.id = res[idx].id
          /\ ~(aoi_geom \subseteq AcceptedUpTo(idx - 1))
          /\ Returned => /\ Result.cover = 100
                         /\ Result.mosaic = Some(aoi_geom)
                         /\ Result.tiles = AcceptedTiles

\* coverage completed by the first of two candidates: the second is never taken
C17_Witness ==
    /\ Returned
    /\ Result.cover = 100
    /\ idx = 1
    /\ Len(res) = 2
    /\ res[2].geometry \cap aoi_geom # {}

RECURSIVE SumOfAreas(_, _)
SumOfAreas(ts, k) ==
    IF k = 0 THEN 0 ELSE SumOfAreas(ts, k - 1) + Cardinality(ts[k].geom)

\* C23: when build_mosaic returns tiles, on the early return and after the
\* loop, the tile geometries are pairwise disjoint and their union is the
\* returned mosaic, so the tile areas add up to the area of the mosaic (the
\* weights of get_clouds add up to 1).
C23_TilesPartitionMosaic ==
    (Returned /\ Result.tiles # <<>>) =>
        /\ Result.mosaic # None
        /\ UNION {Result.tiles[k].geom : k \in DOMAIN Result.tiles} = Result.mosaic[1]
        /\ \A j, k \in DOMAIN Result.tiles :
              j # k => Result.tiles[j].geom \cap Result.tiles[k].geom = {}
        /\ SumOfAreas(Result.tiles, Len(Result.tiles)) = Cardinality(Result.mosaic[1])

\* tiles returned after the loop, short of full coverage, from a footprint
\* that reaches beyond the AOI
C23_Witness ==
    /\ Returned
    /\ loopst.at = "loop"
    /\ Result.tiles # <<>>
    /\ Result.cover < 100
    /\ \E k \in DOMAIN Result.tiles :
          ~(Result.tiles[k].item.geometry \subseteq aoi_geom)

-----------------------------------------------------------------------------
(* Properties of the functions applied on their own (SpecUnit) *)

Applied(fn) == unit # None /\ unit[1].fn = fn /\ out # None
Args == unit[1]
Value == out[1]

\* the common denominator of the per-tile values of field f, and the sum of
\* value x area over the tiles, as a numerator over that denominator
RECURSIVE DenProduct(_, _, _)
DenProduct(ts, k, f) ==
    IF k = 0 THEN 1 ELSE DenProduct(ts, k - 1, f) * ts[k][f][1].d
RECURSIVE WeightedNum(_, _, _, _)
WeightedNum(ts, k, f, den) ==
    IF k = 0 THEN 0
    ELSE WeightedNum(ts, k - 1, f, den)
         + ts[k][f][1].n * (den \div ts[k][f][1].d) * Cardinality(ts[k].geom)
\* r is the mean of field f weighted by area, cut down to a whole number
IsTruncatedMean(r, ts, f, total) ==
    LET den == DenProduct(ts, Len(ts), f)
        num == WeightedNum(ts, Len(ts), f, den)
    IN  r * den * total <= num /\ num < (r + 1) * den * total
\* r is that mean exactly
IsExactMean(r, ts, f, total) ==
    LET den == DenProduct(ts, Len(ts), f)
        num == WeightedNum(ts, Len(ts), f, den)
    IN  r * den * total = num

C18_VisiblePercentWhenSupplied ==
    Applied("item_metadata_cloudiness") =>
        /\ Args.item.visible_percent # None =>
              (~Value.raised /\ Value.value = 100 - Args.item.visible_percent[1])
        /\ (Args.item.visible_percent = None /\ Args.item.cloud_cover # None) =>
              (~Value.raised /\ Value.value = Args.item.cloud_cover[1])

\* C19 as stated: the window of the search for date d starts frame days before
\* d and ends with d.
C19_WindowStartsFrameDaysBefore ==
    Applied("search_date") =>
        acquired_days(Value, Args.date) = (Args.date - Args.frame) .. Args.date

\* C19 amended: the window is the frame days that end with d: its first day is
\* d - (frame - 1), its last day is d (for frame 1, the day d alone).
C19_WindowOfFrameDays ==
    Applied("search_date") =>
        /\ acquired_days(Value, Args.date)
              = (Args.date - (Args.frame - 1)) .. Args.date
        /\ Cardinality(acquired_days(Value, Args.date)) = Args.frame

\* a frame of several days
C19_Witness ==
    /\ Applied("search_date")
    /\ Args.frame > 1
    /\ Cardinality(acquired_days(Value, Args.date)) = Args.frame

\* C20 as stated: for a non-empty tile list and a mosaic of area 0, get_clouds
\* returns cloud-fraction 0 and confidence 0 and does not raise.
C20_ZeroAreaGivesZero ==
    (Applied("get_clouds") /\ Args.tiles # <<>> /\ Cardinality(Args.mosaic) = 0) =>
        (~Value.raised /\ Value.clouds = 0 /\ Value.confidence = 0)

\* the pixels of img whose flag `bit` is set
PixelsWith(img, bit) == {k \in DOMAIN img : (img[k] \div bit) % 2 = 1}

\* C21 as stated: udm1_analysis returns the number of pixels with bit 0 set
\* as clear, the number of pixels with bit 1 set as contaminated, and
\* confidence 0.
C21_Udm1CountsPixels ==
    Applied("udm1_analysis") =>
        /\ Value.clear = Cardinality(PixelsWith(Args.img, 1))
        /\ Value.cloud = Cardinality(PixelsWith(Args.img, 2))
        /\ Value.confidence = 0

-----------------------------------------------------------------------------
(* Properties of the worker pool (SpecPool) *)

\* C13 as stated: the workers share no mutable state: what a worker finds in
\* the dict of downloaded masks is what it put there itself, and whether its
\* get_clouds raises for a missing mask depends on its own downloads alone.
C13_WorkersShareNothing ==
    \A w \in DOMAIN pool :
        pool[w].at = "done" =>
            /\ pool[w].found \subseteq pool[w].wrote
            /\ pool[w].raised <=> (MissingMasks(pool[w].tiles, pool[w].wrote) # {})

=============================================================================
